---- MODULE Spec2Model ----
(***************************************************************************)
(* Model of .github/ISSUE_TEMPLATE/assets/smart-router.js: the SmartRouter *)
(* class (constructor, initialize, processRepositories, findMatches,       *)
(* calculateCosineSimilarity) and the DOMContentLoaded handler with its    *)
(* debounced input listener.                                               *)
(*                                                                         *)
(* A repository is represented by its full_name; the text handed to the    *)
(* embeddings provider for it is not modelled (extractKeywords decides no  *)
(* control flow).  Embedding vectors are integer pairs; a similarity is    *)
(* kept exactly as dot / sqrt(den) so that comparisons have no rounding.   *)
(* Time is counted in milliseconds and advances in steps of TickMs.        *)
(***************************************************************************)
EXTENDS Integers, Sequences, FiniteSets, TLC

\* ---------------------------------------------------------------- bounds
MaxOrgs == 1
MaxRepos == 2
MaxComputations == 2
MaxRankRepos == 3
BurstCap == 3
TickMs == 100

\* ------------------------------------------------------ program constants
DebounceDelay == 300

\* ------------------------------------------------------------- universes
RepoNames == {"o/a", "o/b"}
\* the organizations of the user, in the order the listing returns them
OrgOrder == <<"org1", "org2", "org3">>
Texts == {"bug", "docs"}
Options == <<"", "o/a", "o/b">>

Range(s) == {s[i] : i \in 1..Len(s)}
Min(a, b) == IF a < b THEN a ELSE b
Max(a, b) == IF a < b THEN b ELSE a

\* embedding vectors: two components suffice for zero, parallel, opposite
\* and orthogonal vectors and for vectors of equal direction and other length
Components == {0 - 1, 0, 1}
Vectors == {<<x, y>> : x, y \in Components} \cup {<<2, 0>>, <<2, 2>>, <<1, 2>>}
ZeroVector == <<0, 0>>
\* replies of the embeddings provider drawn while the page runs
ProviderVectors == {ZeroVector, <<1, 0>>}

\* sequences without repetition over S of length at most n
InjSeqs(S, n) ==
    {s \in UNION {[1..k -> S] : k \in 0..n} :
        \A i, j \in 1..Len(s) : i # j => s[i] # s[j]}

OrgLists == {SubSeq(OrgOrder, 1, k) : k \in 0..Min(MaxOrgs, Len(OrgOrder))}
RepoLists == InjSeqs(RepoNames, MaxRepos)

\* ------------------------------------------------- numbers of the ranking
\* A similarity is num / sqrt(den) with den > 0, or the IEEE results of a
\* division by zero: NaN (0/0) and +-Infinity (x/0, sign in num).
Num(n, d) == [kind |-> "num", num |-> n, den |-> d]
NaN == [kind |-> "NaN", num |-> 0, den |-> 0]
Infinity(sign) == [kind |-> "Infinity", num |-> sign, den |-> 0]
Zero == Num(0, 1)

Sgn(x) == IF x > 0 THEN 1 ELSE IF x < 0 THEN 0 - 1 ELSE 0

\* dotProduct / (Math.sqrt(norm1) * Math.sqrt(norm2))
Divide(dot, norm1, norm2) ==
    IF norm1 * norm2 = 0
    THEN IF dot = 0 THEN NaN ELSE Infinity(Sgn(dot))
    ELSE Num(dot, norm1 * norm2)

\* x || 0 : the falsy numbers (0 and NaN) become 0
OrZero(x) ==
    IF x.kind = "NaN" \/ (x.kind = "num" /\ x.num = 0) THEN Zero ELSE x

RECURSIVE SumProducts(_, _, _)
SumProducts(a, b, n) ==
    IF n = 0 THEN 0 ELSE SumProducts(a, b, n - 1) + a[n] * b[n]

calculateCosineSimilarityNoGuard(embedding1, embedding2) ==
    LET n == Len(embedding1)
    IN  Divide(SumProducts(embedding1, embedding2, n),
               SumProducts(embedding1, embedding1, n),
               SumProducts(embedding2, embedding2, n))

calculateCosineSimilarity(embedding1, embedding2) ==
    LET n == Len(embedding1)
        dotProduct == SumProducts(embedding1, embedding2, n)
        norm1 == SumProducts(embedding1, embedding1, n)
        norm2 == SumProducts(embedding2, embedding2, n)
    IN  OrZero(Divide(dotProduct, norm1, norm2))

\* sign of x - y for two similarities; 0 also when the difference is NaN
SignOfDifference(x, y) ==
    IF x.kind = "NaN" \/ y.kind = "NaN" THEN 0
    ELSE IF x.kind = "Infinity" /\ y.kind = "Infinity"
         THEN Sgn(x.num - y.num)
    ELSE IF x.kind = "Infinity" THEN x.num
    ELSE IF y.kind = "Infinity" THEN 0 - y.num
    ELSE Sgn(Sgn(x.num) * x.num * x.num * y.den
             - Sgn(y.num) * y.num * y.num * x.den)

\* (a, b) => b.similarity - a.similarity
Comparator(a, b) == SignOfDifference(b.similarity, a.similarity)

\* position of m in the sorted array s: behind every element that the
\* comparator does not put after m (a stable sort keeps ties in input order)
InsertUnstable(s, m) ==
    LET before == {i \in 1..Len(s) : Comparator(s[i], m) < 0}
        k == Cardinality(before)
    IN  SubSeq(s, 1, k) \o <<m>> \o SubSeq(s, k + 1, Len(s))

Insert(s, m) ==
    LET before == {i \in 1..Len(s) : Comparator(s[i], m) <= 0}
        k == Cardinality(before)
    IN  SubSeq(s, 1, k) \o <<m>> \o SubSeq(s, k + 1, Len(s))

RECURSIVE SortPrefix(_, _)
SortPrefix(matches, n) ==
    IF n = 0 THEN <<>> ELSE Insert(SortPrefix(matches, n - 1), matches[n])

\* matches.sort((a, b) => b.similarity - a.similarity)
Sort(matches) == SortPrefix(matches, Len(matches))

\* the loop of findMatches over Object.entries(this.repositories)
Scores(descriptionEmbedding, repos) ==
    [i \in 1..Len(repos) |->
        [repo |-> repos[i].name,
         similarity |-> calculateCosineSimilarity(descriptionEmbedding,
                                                  repos[i].embedding)]]

\* a ranking that drops the repositories scored 0 or below
findMatchesThreshold(descriptionEmbedding, repos) ==
    LET sorted == Sort(Scores(descriptionEmbedding, repos))
        keep == {i \in 1..Len(sorted) :
                    SignOfDifference(sorted[i].similarity, Zero) > 0}
    IN  [i \in 1..Cardinality(keep) |-> sorted[i].repo]

\* findMatches once the embedding of the description has arrived
findMatches(descriptionEmbedding, repos) ==
    LET sorted == Sort(Scores(descriptionEmbedding, repos))
    IN  [i \in 1..Len(sorted) |-> sorted[i].repo]

\* ------------------------------------------------ the repository mapping
\* this.repositories: an object whose keys iterate in insertion order; a
\* sequence of (name, embedding) with pairwise different names
Keys(repos) == {repos[i].name : i \in 1..Len(repos)}

\* this.repositories[name] = {..., embedding}
Put(repos, name, embedding) ==
    IF name \in Keys(repos)
    THEN [i \in 1..Len(repos) |->
            IF repos[i].name = name
            THEN [name |-> name, embedding |-> embedding] ELSE repos[i]]
    ELSE Append(repos, [name |-> name, embedding |-> embedding])

\* ------------------------------------------------------------------ state
VARIABLES
    hasToken,        \* process.env.GITHUB_TOKEN is set
    hasKey,          \* process.env.VOYAGE_API_KEY is set
    hasField,        \* document.querySelector('#description') is an element
    hasSelect,       \* document.querySelector('#target_repository') is one
    pc,              \* position of the DOMContentLoaded handler
    orgsLeft,        \* organizations the loop of initialize has not reached
    reposLeft,       \* repositories processRepositories has not finished
    repositories,    \* this.repositories
    pending,         \* network calls of initialize awaiting their reply
    networkUsed,     \* a network call has been issued
    processed,       \* set of names whose record processRepositories stored
    failedCall,      \* the call whose failure aborted initialize
    console,         \* set of the messages written with console.error
    listenerBound,   \* the input listener is attached
    fieldValue,      \* descriptionField.value
    lastEventValue,  \* field value carried by the latest input event
    sinceInput,      \* ms since the latest input event, capped at the delay
    burstLen,        \* input events of the current burst (gaps below the delay)
    startsSinceInput,\* match computations started since the latest input event
    timers,          \* pending setTimeout timers
    debounceTimer,   \* the handle kept by the listener
    started,         \* number of match computations started
    inflight,        \* match computations awaiting their embedding
    applied,         \* computations whose result updated the dropdown, in order
    lastMatches,     \* the matches of the latest such computation
    hidden,          \* option.style.display === 'none', per option
    selected,        \* index of the selected option (a dropdown with options
                     \* always has one), 0 when the page has no select
    reselect,        \* what the latest dropdown update did to the selection
    uncaught,        \* a timer callback rejected
    query,           \* ranking: embedding of the description
    ranked,          \* ranking: result of findMatches
    scores,          \* ranking: similarity per mapping entry
    rankState        \* ranking: "input" or "done"

envVars == <<hasToken, hasKey, hasField, hasSelect>>
loadVars == <<pc, orgsLeft, reposLeft, pending, networkUsed, processed,
              failedCall, console, listenerBound>>
inputVars == <<fieldValue, lastEventValue, sinceInput, burstLen,
               startsSinceInput, timers, debounceTimer>>
matchVars == <<started, inflight, applied, lastMatches, uncaught>>
domVars == <<hidden, selected, reselect>>
rankVars == <<query, ranked, scores, rankState>>
vars == <<envVars, loadVars, repositories, inputVars, matchVars, domVars,
          rankVars>>

NoCall == [op |-> "none", arg |-> ""]
NoEmbedding == <<>>

\* ------------------------------------------------------- page-load handler
\* if (!process.env.GITHUB_TOKEN || !process.env.VOYAGE_API_KEY) throw
ConstructorThrowsBothMissing(token, key) == ~token /\ ~key

ConstructorThrows(token, key) == ~token \/ ~key

\* whether the handler reaches addEventListener: the try block runs to the
\* binding only when nothing threw, and binds when both elements exist
HandlerBindsIgnoringFailure(initialized, field, select) == field /\ select

HandlerBinds(initialized, field, select) == initialized /\ field /\ select

\* embedding requests processRepositories has outstanding for the
\* repositories still to process: the loop awaits each before the next
EmbedCallsParallel(repos) == {[op |-> "embed", arg |-> r] : r \in Range(repos)}

EmbedCalls(repos) ==
    IF repos = <<>> THEN {} ELSE {[op |-> "embed", arg |-> Head(repos)]}

\* the mapping after the reply to the embedding request of `name`: the
\* assignment completes only when the awaited embedding has arrived
RecordsStoredBeforeReply(repos, name, ok, embedding) ==
    IF ok THEN Put(repos, name, embedding) ELSE Put(repos, name, NoEmbedding)

RecordsAfterReply(repos, name, ok, embedding) ==
    IF ok THEN Put(repos, name, embedding) ELSE repos

\* DOMContentLoaded: new SmartRouter(), then initialize() up to its first await
PageLoad ==
    /\ pc = "start"
    /\ IF ConstructorThrows(hasToken, hasKey)
       THEN /\ pc' = "failed"
            /\ failedCall' = [op |-> "config", arg |-> ""]
            /\ console' = console \cup {"Failed to initialize SmartRouter:"}
            /\ listenerBound' = HandlerBinds(FALSE, hasField, hasSelect)
            /\ UNCHANGED <<pending, networkUsed>>
       ELSE /\ pc' = "awaitOrgs"
            /\ pending' = {[op |-> "listOrgs", arg |-> ""]}
            /\ networkUsed' = TRUE
            /\ UNCHANGED <<failedCall, console, listenerBound>>
    /\ UNCHANGED <<envVars, orgsLeft, reposLeft, processed, repositories,
                   inputVars, matchVars, domVars, rankVars>>

\* a rejected call inside initialize: logged by each catch on the way out
InitFail(call) ==
    /\ pc' = "failed"
    /\ failedCall' = call
    /\ pending' = pending \ {call}
    /\ console' = console
                  \cup (IF call.op = "embed" THEN {"Error creating embedding:"}
                        ELSE {})
                  \cup {"Error initializing SmartRouter:",
                        "Failed to initialize SmartRouter:"}
    /\ listenerBound' = HandlerBinds(FALSE, hasField, hasSelect)
    /\ UNCHANGED <<networkUsed, orgsLeft, reposLeft, processed>>

\* processRepositories returned: the next organization, or initialize
\* returns and the handler goes on to bind the listener
AfterRepositories(orgs) ==
    IF orgs # <<>>
    THEN /\ pc' = "awaitOrgRepos"
         /\ orgsLeft' = Tail(orgs)
         /\ pending' = {[op |-> "listForOrg", arg |-> Head(orgs)]}
         /\ networkUsed' = TRUE
         /\ UNCHANGED listenerBound
    ELSE /\ pc' = "done"
         /\ orgsLeft' = <<>>
         /\ pending' = {}
         /\ UNCHANGED networkUsed
         /\ listenerBound' = HandlerBinds(TRUE, hasField, hasSelect)

\* processRepositories(repos) up to its first await
StartRepositories(repos, orgs) ==
    IF repos # <<>>
    THEN /\ pc' = "awaitEmbedding"
         /\ reposLeft' = repos
         /\ orgsLeft' = orgs
         /\ pending' = EmbedCalls(repos)
         /\ networkUsed' = TRUE
         /\ UNCHANGED listenerBound
    ELSE /\ reposLeft' = <<>>
         /\ AfterRepositories(orgs)

\* reply to octokit.orgs.listForAuthenticatedUser()
OrgsReply ==
    /\ pc = "awaitOrgs"
    /\ \E call \in pending :
        \/ /\ InitFail(call)
           /\ UNCHANGED repositories
        \/ \E orgs \in OrgLists :
            /\ pc' = "awaitUserRepos"
            /\ orgsLeft' = orgs
            /\ pending' = {[op |-> "listUserRepos", arg |-> ""]}
            /\ networkUsed' = TRUE
            /\ UNCHANGED <<reposLeft, processed, failedCall, console,
                           listenerBound, repositories>>
    /\ UNCHANGED <<envVars, inputVars, matchVars, domVars, rankVars>>

\* reply to octokit.repos.listForAuthenticatedUser()
UserReposReply ==
    /\ pc = "awaitUserRepos"
    /\ \E call \in pending :
        \/ /\ InitFail(call)
           /\ UNCHANGED repositories
        \/ \E repos \in RepoLists :
            /\ StartRepositories(repos, orgsLeft)
            /\ UNCHANGED <<processed, failedCall, console, repositories>>
    /\ UNCHANGED <<envVars, inputVars, matchVars, domVars, rankVars>>

\* reply to octokit.repos.listForOrg({org, per_page: 100})
OrgReposReply ==
    /\ pc = "awaitOrgRepos"
    /\ \E call \in pending :
        \/ /\ InitFail(call)
           /\ UNCHANGED repositories
        \/ \E repos \in RepoLists :
            /\ StartRepositories(repos, orgsLeft)
            /\ UNCHANGED <<processed, failedCall, console, repositories>>
    /\ UNCHANGED <<envVars, inputVars, matchVars, domVars, rankVars>>

\* reply to the createEmbedding call of processRepositories
EmbeddingReply ==
    /\ pc = "awaitEmbedding"
    /\ \E call \in pending :
        /\ call = [op |-> "embed", arg |-> Head(reposLeft)]
        /\ \/ /\ InitFail(call)
              /\ repositories' = RecordsAfterReply(repositories, call.arg,
                                                   FALSE, NoEmbedding)
           \/ \E embedding \in ProviderVectors :
                /\ repositories' = RecordsAfterReply(repositories, call.arg,
                                                     TRUE, embedding)
                /\ processed' = processed \cup {call.arg}
                /\ IF Tail(reposLeft) # <<>>
                   THEN /\ reposLeft' = Tail(reposLeft)
                        /\ pending' = (pending \ {call})
                                      \cup EmbedCalls(Tail(reposLeft))
                        /\ networkUsed' = TRUE
                        /\ UNCHANGED <<pc, orgsLeft, listenerBound>>
                   ELSE /\ reposLeft' = <<>>
                        /\ AfterRepositories(orgsLeft)
                /\ UNCHANGED <<failedCall, console>>
    /\ UNCHANGED <<envVars, inputVars, matchVars, domVars, rankVars>>

\* ----------------------------------------------------- debounced listener
\* clearTimeout(handle)
ClearTimeoutNoop(ts, handle) == ts

ClearTimeout(ts, handle) == {t \in ts : t.id # handle}

\* the handle setTimeout returns: one no pending timer has and that differs
\* from the handle the listener still holds
NewTimerId(ts, handle) ==
    CHOOSE i \in 1..(Cardinality(ts) + 2) :
        /\ i # handle
        /\ \A t \in ts : t.id # i
        /\ \A j \in 1..(i - 1) : j = handle \/ \E t \in ts : t.id = j

\* an input event on the description field; the listener, when attached,
\* runs clearTimeout(debounceTimer); debounceTimer = setTimeout(..., 300)
InputEvent ==
    /\ hasField
    /\ \E text \in Texts :
        /\ fieldValue' = text
        /\ lastEventValue' = text
    /\ burstLen' = IF sinceInput < DebounceDelay
                   THEN Min(burstLen + 1, BurstCap) ELSE 1
    /\ sinceInput' = 0
    /\ startsSinceInput' = 0
    /\ IF listenerBound
       THEN LET cleared == ClearTimeout(timers, debounceTimer)
                id == NewTimerId(cleared, debounceTimer)
            IN  /\ timers' = cleared \cup {[id |-> id, remaining |-> DebounceDelay]}
                /\ debounceTimer' = id
       ELSE UNCHANGED <<timers, debounceTimer>>
    /\ UNCHANGED <<envVars, loadVars, repositories, matchVars, domVars, rankVars>>

\* TickMs milliseconds pass
Tick ==
    /\ sinceInput' = Min(sinceInput + TickMs, DebounceDelay)
    /\ timers' = {[id |-> t.id, remaining |-> Max(t.remaining - TickMs, 0)] :
                    t \in timers}
    /\ UNCHANGED <<fieldValue, lastEventValue, burstLen, startsSinceInput,
                   debounceTimer>>
    /\ UNCHANGED <<envVars, loadVars, repositories, matchVars, domVars, rankVars>>

\* the computations in flight once the timer callback has called findMatches
InFlightAfterStartAborting(running, c) == {c}

InFlightAfterStart(running, c) == running \cup {c}

\* a due timer runs its callback up to the await inside findMatches:
\* description = e.target.value, then createEmbedding issues its request
TimerFire ==
    /\ started < MaxComputations
    /\ \E t \in timers :
        /\ t.remaining = 0
        /\ timers' = timers \ {t}
    /\ started' = started + 1
    /\ inflight' = InFlightAfterStart(inflight,
                        [id |-> started + 1, text |-> fieldValue])
    /\ networkUsed' = TRUE
    /\ startsSinceInput' = startsSinceInput + 1
    /\ UNCHANGED <<fieldValue, lastEventValue, sinceInput, burstLen,
                   debounceTimer, applied, lastMatches, uncaught>>
    /\ UNCHANGED <<envVars, pc, orgsLeft, reposLeft, pending, processed,
                   failedCall, console, listenerBound, repositories, domVars,
                   rankVars>>

\* option.style.display = matches.includes(option.value) ? '' : 'none'
HiddenAfter(matches) ==
    [i \in 1..Len(Options) |-> Options[i] \notin Range(matches)]

FirstVisible(hid) ==
    IF \E i \in 1..Len(Options) : ~hid[i]
    THEN CHOOSE i \in 1..Len(Options) :
            ~hid[i] /\ \A j \in 1..(i - 1) : hid[j]
    ELSE 0

\* a reselection that always jumps to the first visible option
SelectedAfterAlways(sel, hid) ==
    IF FirstVisible(hid) # 0 THEN FirstVisible(hid) ELSE sel

\* if (selectedOptions[0].style.display === 'none') { firstVisible... }
SelectedAfter(sel, hid) ==
    IF hid[sel]
    THEN IF FirstVisible(hid) # 0 THEN FirstVisible(hid) ELSE sel
    ELSE sel

ReselectOutcome(sel, hid) ==
    IF ~hid[sel] THEN "kept"
    ELSE IF FirstVisible(hid) # 0 THEN "moved" ELSE "stuck"

\* the reply to the embedding request of a match computation arrives and the
\* rest of the timer callback runs
ComputationReply ==
    /\ \E c \in inflight :
        /\ inflight' = inflight \ {c}
        /\ \/ /\ console' = console \cup {"Error creating embedding:"}
              /\ uncaught' = TRUE
              /\ UNCHANGED <<applied, lastMatches, domVars>>
           \/ \E embedding \in ProviderVectors :
                LET matches == findMatches(embedding, repositories)
                    hid == HiddenAfter(matches)
                IN  /\ hidden' = hid
                    /\ applied' = Append(applied, c.id)
                    /\ lastMatches' = matches
                    /\ selected' = SelectedAfter(selected, hid)
                    /\ reselect' = ReselectOutcome(selected, hid)
                    /\ UNCHANGED uncaught
                    /\ UNCHANGED console
    /\ UNCHANGED started
    /\ UNCHANGED <<envVars, pc, orgsLeft, reposLeft, pending, networkUsed,
                   processed, failedCall, listenerBound, repositories,
                   inputVars, rankVars>>

\* the user picks a visible option of the dropdown
UserSelect ==
    /\ hasSelect
    /\ \E i \in 1..Len(Options) :
        /\ ~hidden[i]
        /\ i # selected
        /\ selected' = i
    /\ UNCHANGED <<hidden, reselect>>
    /\ UNCHANGED <<envVars, loadVars, repositories, inputVars, matchVars, rankVars>>

\* ----------------------------------------------------------- the program
Init ==
    /\ hasToken \in BOOLEAN
    /\ hasKey \in BOOLEAN
    /\ hasField \in BOOLEAN
    /\ hasSelect \in BOOLEAN
    /\ pc = "start"
    /\ orgsLeft = <<>>
    /\ reposLeft = <<>>
    /\ repositories = <<>>
    /\ pending = {}
    /\ networkUsed = FALSE
    /\ processed = {}
    /\ failedCall = NoCall
    /\ console = {}
    /\ listenerBound = FALSE
    /\ fieldValue = ""
    /\ lastEventValue = ""
    /\ sinceInput = DebounceDelay
    /\ burstLen = 0
    /\ startsSinceInput = 0
    /\ timers = {}
    /\ debounceTimer = 0
    /\ started = 0
    /\ inflight = {}
    /\ applied = <<>>
    /\ lastMatches = <<>>
    /\ hidden = [i \in 1..Len(Options) |-> FALSE]
    /\ selected \in (IF hasSelect THEN 1..Len(Options) ELSE {0})
    /\ reselect = "none"
    /\ uncaught = FALSE
    /\ query = ZeroVector
    /\ ranked = <<>>
    /\ scores = <<>>
    /\ rankState = "idle"

Next ==
    \/ PageLoad
    \/ OrgsReply
    \/ UserReposReply
    \/ OrgReposReply
    \/ EmbeddingReply
    \/ InputEvent
    \/ Tick
    \/ TimerFire
    \/ ComputationReply
    \/ UserSelect

Spec == Init /\ [][Next]_vars

\* ------------------------------------------------- the ranking on its own
\* findMatches and calculateCosineSimilarity applied to a mapping and a
\* description embedding drawn from all vectors of the bounded universe
RankOrder == <<"o/c", "o/a", "o/d", "o/b">>

RankMappings ==
    UNION {{[i \in 1..k |-> [name |-> RankOrder[i], embedding |-> e[i]]] :
                e \in [1..k -> Vectors]} :
           k \in 0..Min(MaxRankRepos, Len(RankOrder))}

InitRank ==
    /\ hasToken = TRUE
    /\ hasKey = TRUE
    /\ hasField = TRUE
    /\ hasSelect = TRUE
    /\ pc = "done"
    /\ orgsLeft = <<>>
    /\ reposLeft = <<>>
    /\ repositories \in RankMappings
    /\ pending = {}
    /\ networkUsed = FALSE
    /\ processed = {}
    /\ failedCall = NoCall
    /\ console = {}
    /\ listenerBound = TRUE
    /\ fieldValue = ""
    /\ lastEventValue = ""
    /\ sinceInput = DebounceDelay
    /\ burstLen = 0
    /\ startsSinceInput = 0
    /\ timers = {}
    /\ debounceTimer = 0
    /\ started = 0
    /\ inflight = {}
    /\ applied = <<>>
    /\ lastMatches = <<>>
    /\ hidden = [i \in 1..Len(Options) |-> FALSE]
    /\ selected = 1
    /\ reselect = "none"
    /\ uncaught = FALSE
    /\ query \in Vectors
    /\ ranked = <<>>
    /\ scores = <<>>
    /\ rankState = "input"

\* findMatches from the arrival of the description embedding to its return
Rank ==
    /\ rankState = "input"
    /\ rankState' = "done"
    /\ scores' = Scores(query, repositories)
    /\ ranked' = findMatches(query, repositories)
    /\ UNCHANGED <<envVars, loadVars, repositories, inputVars, matchVars,
                   domVars, query>>

NextRank == Rank

SpecRank == InitRank /\ [][NextRank]_vars

\* ------------------------------------------------------------ properties
Position(repos, name) == CHOOSE i \in 1..Len(repos) : repos[i].name = name
IsZeroVector(v) == \A i \in 1..Len(v) : v[i] = 0
VisibleOptions(hid) == {i \in 1..Len(Options) : ~hid[i]}

\* C1: when GITHUB_TOKEN or VOYAGE_API_KEY is absent the constructor throws
\* the configuration error, the handler ends in its catch, and no network
\* call has been issued then or is issued later.
C1_MissingCredentialsFailBeforeAnyCall ==
    ((~hasToken \/ ~hasKey) /\ pc # "start") =>
        /\ pc = "failed"
        /\ failedCall.op = "config"
        /\ ~networkUsed
        /\ pending = {}
        /\ inflight = {}
        /\ repositories = <<>>

C1_Witness ==
    /\ pc = "failed"
    /\ hasToken /\ ~hasKey
    /\ hasField /\ hasSelect
    /\ lastEventValue # ""
    /\ sinceInput = DebounceDelay

\* C2: findMatches returns the names by descending similarity to the
\* query, and names of equal similarity in the iteration order of the mapping.
C2_RankedDescendingStable ==
    rankState = "done" =>
        /\ Len(ranked) = Len(repositories)
        /\ \A i, j \in 1..Len(ranked) :
            i < j =>
                LET pi == Position(repositories, ranked[i])
                    pj == Position(repositories, ranked[j])
                    d == SignOfDifference(scores[pi].similarity,
                                          scores[pj].similarity)
                IN  /\ d >= 0
                    /\ d = 0 => pi < pj

C2_Witness ==
    /\ rankState = "done"
    /\ Len(ranked) = 3
    /\ ranked[1] = repositories[3].name
    /\ ranked[2] = repositories[1].name
    /\ SignOfDifference(scores[1].similarity, scores[2].similarity) = 0
    /\ scores[1].similarity # Zero
    /\ scores[1].similarity # scores[2].similarity

\* C3: debounce.  At most one timer is pending, it is the one the latest
\* input event set and it measures the time since that event; a match
\* computation starts only after DebounceDelay ms without input, at most one
\* starts per burst, and it reads the value of the last event of the burst.
C3_Debounce ==
    /\ Cardinality(timers) <= 1
    /\ \A t \in timers :
        /\ t.id = debounceTimer
        /\ t.remaining = DebounceDelay - sinceInput
    /\ startsSinceInput <= 1
    /\ startsSinceInput = 1 =>
        /\ sinceInput >= DebounceDelay
        /\ timers = {}
        /\ \A c \in inflight : c.id = started => c.text = lastEventValue

C3_Witness ==
    /\ startsSinceInput = 1
    /\ burstLen = BurstCap
    /\ \E c \in inflight : c.id = started /\ c.text = lastEventValue

\* C4: calculateCosineSimilarity is exactly 0, not NaN, when either vector
\* is all-zero.
C4_ZeroVectorGivesZero ==
    rankState = "done" =>
        \A i \in 1..Len(repositories) :
            (IsZeroVector(query) \/ IsZeroVector(repositories[i].embedding))
                => scores[i].similarity = Zero

C4_Witness ==
    /\ rankState = "done"
    /\ Len(repositories) = 3
    /\ ~IsZeroVector(query)
    /\ IsZeroVector(repositories[2].embedding)
    /\ ~IsZeroVector(repositories[1].embedding)
    /\ scores[1].similarity # Zero

\* C5 as stated: after a failed embedding request of initialize, the
\* repository of that request and those behind it in the list have no record.
C5_FailedAndLaterHaveNoRecord ==
    (pc = "failed" /\ failedCall.op = "embed") =>
        \A n \in Range(reposLeft) : n \notin Keys(repositories)

\* C5 amended: a failed call of initialize ends it there: nothing stays
\* pending, the failure reaches the handler, no call is issued and no record
\* is changed afterwards (none is outstanding or scheduled in any later
\* state); the mapping holds, each with its embedding, exactly
\* the records of the requests that succeeded before, so the failing request
\* adds none (a repository listed twice keeps its earlier record).
C5_FailureKeepsExactlyEarlierRecords ==
    [][(pc' = "failed" /\ failedCall'.op # "config") =>
        /\ pending' = {}
        /\ "Error initializing SmartRouter:" \in console'
        /\ "Failed to initialize SmartRouter:" \in console'
        /\ Keys(repositories') = processed'
        /\ \A i \in 1..Len(repositories') :
            repositories'[i].embedding \in ProviderVectors
        /\ failedCall'.op = "embed" =>
            /\ reposLeft' # <<>>
            /\ failedCall'.arg = Head(reposLeft')
            /\ failedCall'.arg \in Keys(repositories')
                => failedCall'.arg \in processed'
        /\ pc = "failed" =>
            /\ pending' = {}
            /\ inflight' = {}
            /\ timers' = {}
            /\ repositories' = repositories
       ]_vars

C5_Witness ==
    /\ pc = "failed"
    /\ failedCall.op = "embed"
    /\ failedCall.arg \in Keys(repositories)
    /\ Len(repositories) = 2
    /\ lastEventValue # ""

\* C6 as stated: at most one network operation is outstanding, match
\* computations included.
C6_AtMostOneOutstanding ==
    Cardinality(pending) + Cardinality(inflight) <= 1

\* C6 amended: the calls of initialize are outstanding one at a time, and
\* while one is outstanding no match computation is in flight or scheduled;
\* only embedding calls of different match computations overlap.
C6_InitializeCallsAreSequential ==
    /\ Cardinality(pending) <= 1
    /\ pending # {} => (inflight = {} /\ timers = {} /\ started = 0)
    /\ Cardinality(inflight) <= started

C6_Witness ==
    /\ pc = "awaitEmbedding"
    /\ processed # {}
    /\ Cardinality(pending) = 1
    /\ lastEventValue # ""

\* C7: a match computation in flight is not cancelled when a later timer
\* fires; its result can reach the dropdown after the later one's.
C7_StartKeepsEarlierComputation ==
    [][started' # started => inflight \subseteq inflight']_vars

C7_Witness ==
    /\ Len(applied) = 2
    /\ applied[1] > applied[2]
    /\ \E i \in 1..Len(Options) : hidden[i]

\* C8: a dropdown update moves the selection to the first visible option
\* when the selected one got hidden and one is visible, and leaves it alone
\* when it is still visible or when nothing is visible.
C8_Reselection ==
    [][applied' # applied =>
        LET vis == VisibleOptions(hidden')
        IN  /\ (hidden'[selected] /\ vis # {}) =>
                /\ selected' \in vis
                /\ \A i \in vis : selected' <= i
            /\ ~hidden'[selected] => selected' = selected
            /\ vis = {} => selected' = selected
       ]_vars

C8_Witness ==
    /\ reselect = "moved"
    /\ selected = 3
    /\ hidden[1] /\ hidden[2]

\* C9: the listener is attached only after initialize succeeded and both
\* elements exist; after a failed page load the failure is logged, nothing
\* is attached, and no input starts a computation or touches the dropdown.
C9_FailedLoadLeavesPageInert ==
    /\ listenerBound => (pc = "done" /\ hasField /\ hasSelect)
    /\ pc = "failed" =>
        /\ ~listenerBound
        /\ "Failed to initialize SmartRouter:" \in console
        /\ ~uncaught
        /\ started = 0
        /\ timers = {}
        /\ inflight = {}
        /\ applied = <<>>
        /\ reselect = "none"
        /\ \A i \in 1..Len(Options) : ~hidden[i]

C9_Witness ==
    /\ pc = "failed"
    /\ failedCall.op = "listForOrg"
    /\ hasField /\ hasSelect
    /\ burstLen >= 2
    /\ sinceInput = DebounceDelay
    /\ repositories # <<>>

\* C10: findMatches returns each key of the mapping once, so after a
\* dropdown update the visible options are those whose value is a key,
\* whatever was typed.
C10_VisibleOptionsAreTheKeys ==
    applied # <<>> =>
        /\ Len(lastMatches) = Len(repositories)
        /\ Range(lastMatches) = Keys(repositories)
        /\ \A i \in 1..Len(Options) :
            ~hidden[i] <=> Options[i] \in Keys(repositories)

C10_Witness ==
    /\ Len(applied) = 2
    /\ Len(repositories) = 2
    /\ lastMatches[1] = repositories[2].name
    /\ hidden[1]
    /\ ~hidden[2]

====
